---- MODULE Spec2Model ----
(***************************************************************************)
(* Lead-generation pipeline of src/app.py: the helper functions of lines   *)
(* 86-257 and the "Generate Enhanced Leads" loop of lines 376-485.         *)
(*                                                                         *)
(* Python strings are sequences of one-character strings, so that          *)
(* lower(), strip(), split(), replace() and the `in` substring test are    *)
(* computed and not assumed.                                               *)
(*                                                                         *)
(* Left out: the page text, company size and technology stack that         *)
(* scrape_website also returns (lines 119-158, 232-233), the prompt texts  *)
(* of lines 259-366 and the display and export code after line 487; none   *)
(* of them feeds a gate, the score or the result list's length.            *)
(***************************************************************************)
EXTENDS Integers, Sequences, FiniteSets, TLC

VARIABLES
    names,           \* names bound in the module namespace (imports, lines 1-11)
    max_leads,       \* sidebar slider, line 46
    min_score,       \* sidebar slider, line 47
    exclude_domains, \* sidebar text area, line 51 (raw text)
    hunter_api_key,  \* line 42: TRUE iff a key was entered
    world,           \* the responses the external services can give in this run
    status,          \* position of the script: start, running, done, raised
    results,         \* line 388: websites (r["link"]) of the organic results, in order
    idx,             \* number of results the loop has consumed
    leads,           \* line 377
    seen_domains,    \* line 378
    processed,       \* per consumed result: what the loop body did with it
    probe            \* last application of a helper function on its own

vars == <<names, max_leads, min_score, exclude_domains, hunter_api_key, world,
          status, results, idx, leads, seen_domains, processed, probe>>

pipelineVars == <<names, max_leads, min_score, exclude_domains, hunter_api_key,
                  world, status, results, idx, leads, seen_domains, processed>>

----------------------------------------------------------------------------
(* Bounds of the model *)

MaxResults == 2      \* longest organic-result list of a full run
MaxCapLeads == 5     \* largest max_leads value of the capped runs
MaxDigits == 3       \* longest digit string after "Lead Score:"
MaxOrganic == 3      \* longest organic-result list handed to get_linkedin_info

(* Program constants *)

MinMaxLeads == 5     \* lower end of the max_leads slider
MinMinScore == 1     \* lower end of the min_score slider
DefaultMinScore == 5 \* default of the min_score slider
DefaultAiScore == 5  \* ai_score when the analysis has no "Lead Score:" match

----------------------------------------------------------------------------
(* String primitives *)

Range(s) == {s[i] : i \in 1..Len(s)}

DigitChars == {"0","1","2","3","4","5","6","7","8","9"}

LowerChar(c) ==
    CASE c = "A" -> "a" [] c = "B" -> "b" [] c = "C" -> "c" [] c = "O" -> "o"
      [] c = "H" -> "h" [] c = "I" -> "i" [] c = "R" -> "r" [] c = "N" -> "n"
      [] c = "G" -> "g" [] c = "E" -> "e" [] c = "F" -> "f" [] c = "U" -> "u"
      [] c = "D" -> "d" [] c = "W" -> "w" [] c = "X" -> "x"
      [] OTHER -> c

Lower(s) == [i \in 1..Len(s) |-> LowerChar(s[i])]

\* Python `sub in s`
Contains(s, sub) ==
    \E i \in 0..(Len(s) - Len(sub)) : SubSeq(s, i + 1, i + Len(sub)) = sub

\* Python s.replace(old, ""), old non-empty: leftmost non-overlapping occurrences
RECURSIVE RemoveAll(_, _)
RemoveAll(s, old) ==
    IF Len(s) < Len(old) THEN s
    ELSE IF SubSeq(s, 1, Len(old)) = old
         THEN RemoveAll(SubSeq(s, Len(old) + 1, Len(s)), old)
         ELSE <<s[1]>> \o RemoveAll(Tail(s), old)

WhiteSpace == {" ", "\t"}

RECURSIVE LStrip(_)
LStrip(s) == IF s # <<>> /\ s[1] \in WhiteSpace THEN LStrip(Tail(s)) ELSE s

RECURSIVE RStrip(_)
RStrip(s) ==
    IF s # <<>> /\ s[Len(s)] \in WhiteSpace
    THEN RStrip(SubSeq(s, 1, Len(s) - 1)) ELSE s

\* Python s.strip()
Strip(s) == RStrip(LStrip(s))

\* Python s.split(sep) for a one-character sep, as a sequence of pieces
RECURSIVE Split(_, _)
Split(s, sep) ==
    IF \A i \in 1..Len(s) : s[i] # sep THEN <<s>>
    ELSE LET k == CHOOSE i \in 1..Len(s) :
                      s[i] = sep /\ \A j \in 1..(i - 1) : s[j] # sep
         IN  <<SubSeq(s, 1, k - 1)>> \o Split(SubSeq(s, k + 1, Len(s)), sep)

\* Python s.split(sep)[-1]
SplitLast(s, sep) == LET p == Split(s, sep) IN p[Len(p)]

\* Python int(digits)
DigitValue(c) ==
    CASE c = "0" -> 0 [] c = "1" -> 1 [] c = "2" -> 2 [] c = "3" -> 3
      [] c = "4" -> 4 [] c = "5" -> 5 [] c = "6" -> 6 [] c = "7" -> 7
      [] c = "8" -> 8 [] c = "9" -> 9

RECURSIVE ParseInt(_)
ParseInt(d) ==
    IF d = <<>> THEN 0
    ELSE 10 * ParseInt(SubSeq(d, 1, Len(d) - 1)) + DigitValue(d[Len(d)])

Min(a, b) == IF a < b THEN a ELSE b

----------------------------------------------------------------------------
(* Constants of lines 24-33 *)

FREE_EMAIL_DOMAINS ==
    { <<"g","m","a","i","l",".","c","o","m">>,
      <<"y","a","h","o","o",".","c","o","m">>,
      <<"o","u","t","l","o","o","k",".","c","o","m">>,
      <<"h","o","t","m","a","i","l",".","c","o","m">>,
      <<"a","o","l",".","c","o","m">>,
      <<"i","c","l","o","u","d",".","c","o","m">> }

BLOCKED_DOMAINS ==
    { <<"y","e","l","p">>,
      <<"c","l","u","t","c","h">>,
      <<"j","u","s","t","d","i","a","l">>,
      <<"i","n","d","i","a","m","a","r","t">>,
      <<"y","e","l","l","o","w","p","a","g","e","s">>,
      <<"f","a","c","e","b","o","o","k",".","c","o","m">>,
      <<"i","n","s","t","a","g","r","a","m",".","c","o","m">>,
      <<"t","w","i","t","t","e","r",".","c","o","m">> }

----------------------------------------------------------------------------
(* Helper functions, lines 86-101 *)

\* urlparse(url).netloc: the text between "//" (after an optional scheme) and
\* the next "/", "?" or "#"; ValueError for an unbalanced "[" or "]"
SchemeEnd(url) ==
    IF \E i \in 2..Len(url) :
           url[i] = ":" /\ \A j \in 1..(i - 1) : url[j] \notin {":", "/", "?", "#", "[", "]", " "}
    THEN CHOOSE i \in 2..Len(url) :
           url[i] = ":" /\ \A j \in 1..(i - 1) : url[j] \notin {":", "/", "?", "#", "[", "]", " "}
    ELSE 0

UrlNetloc(url) ==
    LET rest == SubSeq(url, SchemeEnd(url) + 1, Len(url))
    IN  IF Len(rest) >= 2 /\ rest[1] = "/" /\ rest[2] = "/"
        THEN LET body == SubSeq(rest, 3, Len(rest))
                 stop == IF \E i \in 1..Len(body) : body[i] \in {"/", "?", "#"}
                         THEN (CHOOSE i \in 1..Len(body) :
                                  body[i] \in {"/", "?", "#"}
                                  /\ \A j \in 1..(i - 1) : body[j] \notin {"/", "?", "#"}) - 1
                         ELSE Len(body)
             IN  SubSeq(body, 1, stop)
        ELSE <<>>

UrlParseRaises(url) ==
    LET n == UrlNetloc(url)
    IN  ("[" \in Range(n)) # ("]" \in Range(n))

S_www == <<"w","w","w",".">>

get_domain(url) ==
    IF UrlParseRaises(url) THEN <<>>
    ELSE RemoveAll(UrlNetloc(url), S_www)

is_company_email(email, website) ==
    LET domain == get_domain(website)
        email_domain == Lower(SplitLast(email, "@"))
    IN  IF email_domain \in FREE_EMAIL_DOMAINS THEN FALSE
        ELSE domain # <<>> /\ Contains(email_domain, domain)

is_valid_phone(phone) ==
    LET digits == SelectSeq(phone, LAMBDA c : c \in DigitChars)
    IN  10 <= Len(digits) /\ Len(digits) <= 15

----------------------------------------------------------------------------
(* Responses of the external services.  A call that raises (transport      *)
(* error, timeout, res.json() failure) is None; a reply is Some(payload).  *)

None == <<>>
Some(x) == <<x>>

S_https == <<"h","t","t","p","s",":","/","/">>
S_co == <<".","c","o">>
S_linkedin_company ==
    <<"l","i","n","k","e","d","i","n",".","c","o","m","/","c","o","m","p","a","n","y">>
S_twitter == <<"t","w","i","t","t","e","r",".","c","o","m">>
S_facebook == <<"f","a","c","e","b","o","o","k",".","c","o","m">>

Site(c) == S_https \o <<c>> \o S_co

W_plain == Site("a")                                \* https://a.co
W_www == S_https \o S_www \o <<"a">> \o S_co         \* https://www.a.co
W_upper == Site("A")                                \* https://A.co
W_blockedPath == Site("a") \o <<"/","y","e","l","p">> \* https://a.co/yelp
W_noLink == <<>>                                    \* r.get("link", "")

Letters == <<"a","b","c","d","e","f","g","h","i">>

E_free == <<"x","@","g","m","a","i","l",".","c","o","m">>
E_a == <<"x","@","a",".","c","o">>
E_A == <<"X","@","A",".","C","O">>
E_sub == <<"x","@","m",".","b",".","c","o","m">>

P_valid == <<"+","1"," ","5","5","5","-","1","2","3","-","4","5","6","7">>
P_short == <<"5","5","5","-","1","2","3","-","4","5">>
P_long == <<"1","2","3","4","5","6","7","8","9","0","1","2","3","4","5","6">>

Page(e, p) == [emails |-> e, phones |-> p]

Pages(w) ==
    IF w = "capped"
    THEN { Page(<<>>, <<>>), Page(<<>>, <<P_valid>>) }
    ELSE { Page(<<E_free, E_a>>, <<P_short>>),
           Page(<<E_free>>, <<P_long, P_valid>>),
           Page(<<E_sub, E_A>>, <<P_valid>>) }

ScrapeReplies(w) ==
    IF w = "capped" THEN {Some(p) : p \in Pages(w)}
    ELSE {None} \cup {Some(p) : p \in Pages(w)}

HunterData(has, st, sc) == [data |-> has, status |-> st, score |-> sc]

HunterReplies(w) ==
    IF w = "capped" THEN {None}
    ELSE {None, Some(HunterData(TRUE, "valid", 90))}

Organic(l, t, s) == [link |-> l, title |-> t, snippet |-> s]

L_companyA == S_https \o S_linkedin_company \o <<"/","a">>
L_companyB == S_https \o S_linkedin_company \o <<"/","b">>
L_twitter == S_https \o S_twitter \o <<"/","a">>
L_facebook == S_https \o S_facebook \o <<"/","a">>
L_plain == <<"x",".","c","o">>

T_ceo == <<"C","E","O"," ","A">>
T_owner == <<"o","w","n","e","r"," ","B">>
T_cofounder == <<"C","o","-","F","o","u","n","d","e","r"," ","C">>
T_hiring == <<"N","o","w"," ","H","i","r","i","n","g">>
T_funding == <<"f","u","n","d","i","n","g">>
T_plain == <<"x">>

LinkedInReplies(w) ==
    IF w = "capped" THEN {Some(<<>>)}
    ELSE { None, Some(<<>>),
           Some(<<Organic(L_companyA, T_ceo, <<>>), Organic(L_companyB, T_owner, <<>>)>>) }

SignalReplies(w) ==
    IF w = "capped" THEN {Some(<<Organic(L_plain, T_hiring, <<>>)>>)}
    ELSE { None, Some(<<Organic(L_plain, T_hiring, T_funding)>>) }

SocialReplies(w) ==
    IF w = "capped" THEN {None}
    ELSE {None, Some(<<Organic(L_twitter, T_plain, <<>>), Organic(L_companyA, T_plain, <<>>)>>)}

\* The text llm.invoke returns, as far as line 439 reads it: whether it has a
\* "Lead Score:\s*(\d+)" match, and the digits matched
Analysis(m, d) == [has_score |-> m, digits |-> d]

AnalysisReplies(w) ==
    IF w = "capped" THEN {Some(Analysis(FALSE, <<>>))}
    ELSE { None, Some(Analysis(FALSE, <<>>)), Some(Analysis(TRUE, <<"0">>)) }

OutreachReplies(w) == IF w = "capped" THEN {TRUE} ELSE {TRUE, FALSE}

\* Organic-result lists the search of line 388 can return
RECURSIVE SeqsUpTo(_, _)
SeqsUpTo(S, n) ==
    IF n = 0 THEN {<<>>}
    ELSE LET shorter == SeqsUpTo(S, n - 1)
         IN  shorter \cup {Append(q, x) : q \in {s \in shorter : Len(s) = n - 1}, x \in S}

Websites == {W_plain, W_www, W_upper, W_blockedPath, W_noLink}

CappedLists ==
    LET n == MaxCapLeads + 1
    IN  {q \in SeqsUpTo({0, 1}, n) : Len(q) = n}

SearchReplies(w) ==
    IF w = "capped"
    THEN {[i \in 1..Len(q) |-> IF q[i] = 1 THEN Site(Letters[i]) ELSE Site(Letters[1])]
            : q \in CappedLists}
    ELSE SeqsUpTo(Websites, MaxResults)

E_lower == <<"a",".","c","o">>
E_mixed == <<"A",".","c","o","\n"," ","b",".","c","o"," ">>

ExcludeTexts == {<<>>, E_lower, E_mixed}

----------------------------------------------------------------------------
(* Fetchers, lines 103-257.  Each takes the reply of its one HTTP call.    *)

NotVerified == [status |-> "Not Verified", score |-> 0]

\* lines 103-117
verify_email_hunter(reply, key) ==
    IF ~key THEN NotVerified
    ELSE IF reply = None THEN NotVerified
    ELSE IF reply[1].data
         THEN [status |-> reply[1].status, score |-> reply[1].score]
         ELSE NotVerified

S_hiring == <<"h","i","r","i","n","g">>
S_funding == <<"f","u","n","d","i","n","g">>
S_expansion == <<"e","x","p","a","n","s","i","o","n">>

RECURSIVE SignalLoop(_, _)
SignalLoop(rs, signals) ==
    IF rs = <<>> THEN signals
    ELSE LET snippet == Lower(rs[1].snippet)
             title == Lower(rs[1].title)
             s1 == IF Contains(snippet, S_hiring) \/ Contains(title, S_hiring)
                   THEN Append(signals, "Currently Hiring") ELSE signals
             s2 == IF Contains(snippet, S_funding) \/ Contains(title, S_funding)
                   THEN Append(s1, "Recently Funded") ELSE s1
             s3 == IF Contains(snippet, S_expansion) \/ Contains(title, S_expansion)
                   THEN Append(s2, "Expanding") ELSE s2
         IN  SignalLoop(Tail(rs), s3)

\* lines 160-183; the value is the list that ", ".join() joins, or <<"None">>
check_buying_signals(reply) ==
    LET signals == IF reply = None THEN <<>> ELSE SignalLoop(reply[1], <<>>)
    IN  IF signals # <<>> THEN signals ELSE <<"None">>

RECURSIVE SocialLoop(_, _)
SocialLoop(rs, social) ==
    IF rs = <<>> THEN social
    ELSE LET link == rs[1].link
             next == IF Contains(link, S_linkedin_company) /\ social.LinkedIn = <<>>
                     THEN [social EXCEPT !.LinkedIn = link]
                     ELSE IF Contains(link, S_twitter) /\ social.Twitter = <<>>
                     THEN [social EXCEPT !.Twitter = link]
                     ELSE IF Contains(link, S_facebook) /\ social.Facebook = <<>>
                     THEN [social EXCEPT !.Facebook = link]
                     ELSE social
         IN  SocialLoop(Tail(rs), next)

NoSocial == [LinkedIn |-> <<>>, Twitter |-> <<>>, Facebook |-> <<>>]

\* lines 185-207
get_social_presence(reply) ==
    IF reply = None THEN NoSocial ELSE SocialLoop(reply[1], NoSocial)

\* lines 225-236: BeautifulSoup is looked up in the module namespace inside the
\* try block; an unbound name raises NameError, which the bare except catches
scrape_website(reply, bound) ==
    IF reply = None \/ "BeautifulSoup" \notin bound
    THEN Page(<<>>, <<>>)
    ELSE Page(reply[1].emails, reply[1].phones)

FounderWords ==
    { <<"f","o","u","n","d","e","r">>, <<"c","e","o">>,
      <<"c","o","-","f","o","u","n","d","e","r">>, <<"o","w","n","e","r">> }

\* lines 250-256: every matching result overwrites the value found before it
RECURSIVE LinkedInLoop(_, _, _)
LinkedInLoop(rs, linkedin, founder) ==
    IF rs = <<>> THEN [linkedin |-> linkedin, founder |-> founder]
    ELSE LET link == rs[1].link
             title == rs[1].title
             l2 == IF Contains(link, S_linkedin_company) THEN link ELSE linkedin
             f2 == IF \E k \in FounderWords : Contains(Lower(title), k)
                   THEN title ELSE founder
         IN  LinkedInLoop(Tail(rs), l2, f2)

\* lines 238-257: no try block; requests.get / res.json() raising propagates
get_linkedin_raises(reply) == reply = None

get_linkedin_info(reply) ==
    LinkedInLoop(reply[1], <<>>, <<>>)

----------------------------------------------------------------------------
(* The loop body, lines 399-478 *)

\* line 382
NonBlankLines(text) ==
    {l \in Range(Split(text, "\n")) : Strip(l) # <<>>}

excluded == IF exclude_domains = <<>> THEN {}
            ELSE {Lower(Strip(l)) : l \in NonBlankLines(exclude_domains)}

\* The membership test of line 403 left out
DomainSeen_never(domain, seen) == FALSE

\* line 403, second operand
DomainSeen(domain, seen) == domain \in seen

\* line 405
UrlBlocked(website) == \E b \in BLOCKED_DOMAINS : Contains(Lower(website), b)

\* line 407
DomainExcluded(domain) == domain \in excluded

\* The add of line 410 left out
AddSeen_forgets(seen, domain) == seen

\* line 410
AddSeen(seen, domain) == seen \cup {domain}

\* next(iter(kept), ""): the first element kept by the generator's filter
FirstOr(kept) == IF kept = <<>> THEN <<>> ELSE kept[1]

\* The first address found, whatever its domain
FirstCompanyEmail_any(emails, website) ==
    IF emails = <<>> THEN <<>> ELSE emails[1]

\* line 413
FirstCompanyEmail(emails, website) ==
    FirstOr(SelectSeq(emails, LAMBDA e : is_company_email(e, website)))

\* line 414
FirstValidPhone(phones) == FirstOr(SelectSeq(phones, is_valid_phone))

\* lines 439-440
ai_score_of(analysis) ==
    IF analysis.has_score THEN ParseInt(analysis.digits) ELSE DefaultAiScore

\* The language-model score added without its min(ai_score, 3) clamp
lead_score_unclamped(has_email, has_phone, has_signal, has_linkedin, ai_score) ==
    LET h1 == IF has_email THEN 2 ELSE 0
        h2 == IF has_phone THEN h1 + 2 ELSE h1
        h3 == IF has_signal THEN h2 + 2 ELSE h2
        h4 == IF has_linkedin THEN h3 + 1 ELSE h3
    IN  Min(h4 + ai_score, 10)

\* lines 442-448
lead_score_of(has_email, has_phone, has_signal, has_linkedin, ai_score) ==
    LET h0 == 0
        h1 == IF has_email THEN h0 + 2 ELSE h0
        h2 == IF has_phone THEN h1 + 2 ELSE h1
        h3 == IF has_signal THEN h2 + 2 ELSE h2
        h4 == IF has_linkedin THEN h3 + 1 ELSE h3
        hybrid_score == h4 + Min(ai_score, 3)
    IN  Min(hybrid_score, 10)

\* The comparison of line 450 with <= for <
BelowMinimum_orEqual(lead_score, minimum) == lead_score <= minimum

\* line 450
BelowMinimum(lead_score, minimum) == lead_score < minimum

\* The comparison of line 392 off by one
LoopContinues_offByOne(n_leads, cap) == n_leads <= cap

\* line 392, negated: the loop goes on to the next result
LoopContinues(n_leads, cap) == n_leads < cap

----------------------------------------------------------------------------
(* State machine of one press of the button, lines 376-485 *)

Config == <<names, max_leads, min_score, exclude_domains, hunter_api_key, world>>

ModuleNames ==
    {"st", "pd", "requests", "re", "BytesIO", "urlparse", "datetime", "json",
     "ChatGroq", "PromptTemplate"}

Fresh ==
    /\ status = "start"
    /\ results = <<>>
    /\ idx = 0
    /\ leads = <<>>
    /\ seen_domains = {}
    /\ processed = <<>>
    /\ probe = [fn |-> "none"]

\* names: the imports of lines 1-11 leave BeautifulSoup unbound; the run is
\* also followed in the namespace that binds it, where scrape_website can
\* return what it extracted and the loop gets past the contact gate.
Init ==
    /\ Fresh
    /\ world = "any"
    /\ names \in {ModuleNames, ModuleNames \cup {"BeautifulSoup"}}
    /\ max_leads = MinMaxLeads
    /\ min_score \in {MinMinScore, DefaultMinScore}
    /\ exclude_domains \in ExcludeTexts
    /\ hunter_api_key \in BOOLEAN

InitCap ==
    /\ Fresh
    /\ world = "capped"
    /\ names = ModuleNames \cup {"BeautifulSoup"}
    /\ max_leads \in MinMaxLeads..MaxCapLeads
    /\ min_score = MinMinScore
    /\ exclude_domains = <<>>
    /\ hunter_api_key = FALSE

\* lines 387-389: search_businesses has no try block
Search ==
    /\ status = "start"
    /\ \E reply \in {None} \cup {Some(l) : l \in SearchReplies(world)} :
          IF reply = None
          THEN status' = "raised" /\ results' = results
          ELSE status' = "running" /\ results' = reply[1]
    /\ UNCHANGED <<Config, idx, leads, seen_domains, processed, probe>>

Entry(gate, calls, scored, score) ==
    [gate |-> gate, calls |-> calls, scored |-> scored, score |-> score]

\* One pass of the loop body ends: continue, append, or an exception leaves it
EndPass(entry, new_leads, new_seen, new_status) ==
    /\ processed' = Append(processed, entry)
    /\ leads' = new_leads
    /\ seen_domains' = new_seen
    /\ status' = new_status
    /\ idx' = idx + 1
    /\ UNCHANGED <<Config, results, probe>>

Lead(website, email, phone, verdict, linkedin, score) ==
    [Website |-> website, Email |-> email, Phone |-> phone,
     Email_Status |-> verdict.status, LinkedIn |-> linkedin, Lead_Score |-> score]

\* lines 418-478, for a result that passed the contact gate
Enrich(website, seen, valid_email, valid_phone) ==
    \E hunter \in (IF valid_email # <<>> /\ hunter_api_key
                   THEN HunterReplies(world) ELSE {None}),
       li \in LinkedInReplies(world) :
        LET verdict == IF valid_email # <<>> /\ hunter_api_key
                       THEN verify_email_hunter(hunter, hunter_api_key)
                       ELSE NotVerified
            c1 == {"scrape"} \cup
                  (IF valid_email # <<>> /\ hunter_api_key THEN {"hunter"} ELSE {})
            c2 == c1 \cup {"linkedin"}
        IN  IF get_linkedin_raises(li)
            THEN EndPass(Entry("raised", c2, FALSE, 0), leads, seen, "raised")
            ELSE \E sig \in SignalReplies(world), soc \in SocialReplies(world),
                    an \in AnalysisReplies(world) :
                 LET info == get_linkedin_info(li)
                     buying_signals == check_buying_signals(sig)
                     social == get_social_presence(soc)
                     c3 == c2 \cup {"signals", "social", "llm_score"}
                 IN  IF an = None
                     THEN EndPass(Entry("raised", c3, FALSE, 0), leads, seen, "raised")
                     ELSE LET lead_score ==
                                  lead_score_of(valid_email # <<>>, valid_phone # <<>>,
                                                buying_signals # <<"None">>,
                                                info.linkedin # <<>>,
                                                ai_score_of(an[1]))
                          IN  IF BelowMinimum(lead_score, min_score)
                              THEN EndPass(Entry("low_score", c3, TRUE, lead_score),
                                           leads, seen, status)
                              ELSE \E outreach \in OutreachReplies(world) :
                                   IF ~outreach
                                   THEN EndPass(Entry("raised", c3 \cup {"llm_outreach"},
                                                      TRUE, lead_score),
                                                leads, seen, "raised")
                                   ELSE EndPass(
                                          Entry("lead", c3 \cup {"llm_outreach"},
                                                TRUE, lead_score),
                                          Append(leads,
                                                 Lead(website, valid_email, valid_phone,
                                                      verdict,
                                                      IF info.linkedin # <<>>
                                                      THEN info.linkedin
                                                      ELSE social.LinkedIn,
                                                      lead_score)),
                                          seen, status)

\* lines 391-478: one iteration of the for loop
Iterate ==
    /\ status = "running"
    /\ idx < Len(results)
    /\ LoopContinues(Len(leads), max_leads)
    /\ LET website == results[idx + 1]
           domain == get_domain(website)
       IN  IF domain = <<>>
           THEN EndPass(Entry("no_domain", {}, FALSE, 0), leads, seen_domains, status)
           ELSE IF DomainSeen(domain, seen_domains)
           THEN EndPass(Entry("seen", {}, FALSE, 0), leads, seen_domains, status)
           ELSE IF UrlBlocked(website)
           THEN EndPass(Entry("blocked", {}, FALSE, 0), leads, seen_domains, status)
           ELSE IF DomainExcluded(domain)
           THEN EndPass(Entry("excluded", {}, FALSE, 0), leads, seen_domains, status)
           ELSE \E reply \in ScrapeReplies(world) :
                LET seen == AddSeen(seen_domains, domain)
                    page == scrape_website(reply, names)
                    valid_email == FirstCompanyEmail(page.emails, website)
                    valid_phone == FirstValidPhone(page.phones)
                IN  IF valid_email = <<>> /\ valid_phone = <<>>
                    THEN EndPass(Entry("no_contact", {"scrape"}, FALSE, 0),
                                 leads, seen, status)
                    ELSE Enrich(website, seen, valid_email, valid_phone)

\* lines 391-393 and 480-485: the loop is left, the run is over
Finish ==
    /\ status = "running"
    /\ ~(idx < Len(results) /\ LoopContinues(Len(leads), max_leads))
    /\ status' = "done"
    /\ UNCHANGED <<Config, results, idx, leads, seen_domains, processed, probe>>

Next == Search \/ Iterate \/ Finish

\* A run in either namespace
Spec == Init /\ [][Next]_vars

\* A run in the namespace of lines 1-11 alone
InitAsWritten == Init /\ names = ModuleNames

SpecAsWritten == InitAsWritten /\ [][Next]_vars

\* Runs over results of distinct domains, long enough to reach max_leads
SpecCap == InitCap /\ [][Next]_vars

----------------------------------------------------------------------------
(* The scoring arithmetic and get_linkedin_info applied on their own *)

InitProbe ==
    /\ Fresh
    /\ world = "any"
    /\ names = ModuleNames
    /\ max_leads = MinMaxLeads
    /\ min_score = MinMinScore
    /\ exclude_domains = <<>>
    /\ hunter_api_key = FALSE

DigitStrings == {d \in SeqsUpTo(DigitChars, MaxDigits) : d # <<>>}

ScoreAnalyses == {Analysis(FALSE, <<>>)} \cup {Analysis(TRUE, d) : d \in DigitStrings}

\* lines 438-448 on any analysis text and any four signals
ApplyScore ==
    /\ probe.fn = "none"
    /\ \E e \in BOOLEAN, p \in BOOLEAN, b \in BOOLEAN, l \in BOOLEAN,
          an \in ScoreAnalyses :
          probe' = [fn |-> "lead_score", has_email |-> e, has_phone |-> p,
                    has_signal |-> b, has_linkedin |-> l, analysis |-> an,
                    ai_score |-> ai_score_of(an),
                    out |-> lead_score_of(e, p, b, l, ai_score_of(an))]
    /\ UNCHANGED pipelineVars

SpecScore == InitProbe /\ [][ApplyScore]_vars

OrganicPool ==
    { Organic(L_companyA, T_plain, <<>>), Organic(L_companyB, T_ceo, <<>>),
      Organic(L_plain, T_owner, <<>>), Organic(L_plain, T_plain, <<>>),
      Organic(L_companyA, T_cofounder, <<>>) }

\* lines 248-257 on any list of organic results
ApplyLinkedIn ==
    /\ probe.fn = "none"
    /\ \E rs \in SeqsUpTo(OrganicPool, MaxOrganic) :
          probe' = [fn |-> "get_linkedin_info", organic |-> rs,
                    out |-> get_linkedin_info(Some(rs))]
    /\ UNCHANGED pipelineVars

SpecLinkedIn == InitProbe /\ [][ApplyLinkedIn]_vars

----------------------------------------------------------------------------
(* Vocabulary of the properties *)

DomainAt(i) == get_domain(results[i])

\* The pass over the result at position i appended it to the result list
InLeads(i) ==
    /\ processed[i].gate = "lead"
    /\ \E k \in 1..Len(leads) : leads[k].Website = results[i]

\* The websites of the result list are those of the appending passes, in order
RECURSIVE AppendedUpTo(_)
AppendedUpTo(n) ==
    IF n = 0 THEN <<>>
    ELSE IF processed[n].gate = "lead"
         THEN Append(AppendedUpTo(n - 1), results[n])
         ELSE AppendedUpTo(n - 1)

LeadsAreAppendedPasses ==
    /\ Len(processed) = idx
    /\ [k \in 1..Len(leads) |-> leads[k].Website] = AppendedUpTo(Len(processed))

Scraped(i) == "scrape" \in processed[i].calls

DigitCount(phone) == Cardinality({i \in 1..Len(phone) : phone[i] \in DigitChars})

\* The part of an address after its last "@", lower-cased
MailHost(email) ==
    LET ats == {i \in 1..Len(email) : email[i] = "@"}
        last == IF ats = {} THEN 0 ELSE CHOOSE i \in ats : \A j \in ats : j <= i
    IN  Lower(SubSeq(email, last + 1, Len(email)))

\* The entries the user typed into the exclusion box, trimmed
ConfiguredEntries == {Strip(l) : l \in NonBlankLines(exclude_domains)}

\* The domain matches a configured entry when letter case is ignored
ExcludedIgnoringCase(domain) ==
    \E e \in ConfiguredEntries : Lower(e) = Lower(domain)

\* With BeautifulSoup unbound every scrape returns the defaults, so no result
\* passes the contact gate and the result list stays empty.
UnboundParserNoLead ==
    "BeautifulSoup" \notin names =>
        /\ leads = <<>>
        /\ \A i \in 1..Len(processed) :
              processed[i].gate \in {"no_domain", "seen", "blocked", "excluded", "no_contact"}

----------------------------------------------------------------------------
(* C1: in every reachable state of a run, no two leads of the result list  *)
(* have the same domain.                                                   *)
C1_UniqueLeadDomains ==
    \A i \in 1..Len(leads) : \A j \in 1..Len(leads) :
        i # j => get_domain(leads[i].Website) # get_domain(leads[j].Website)

\* a lead was appended and a later result of the same domain was consumed
C1_Witness ==
    \E i \in 1..Len(processed) : \E j \in 1..Len(processed) :
        /\ i < j
        /\ InLeads(i)
        /\ results[i] # results[j]
        /\ DomainAt(i) = DomainAt(j)
        /\ ~InLeads(j)

C4_ContactGate ==
    /\ \A k \in 1..Len(leads) :
          /\ leads[k].Email # <<>> \/ leads[k].Phone # <<>>
          /\ leads[k].Email # <<>> =>
                /\ MailHost(leads[k].Email) \notin FREE_EMAIL_DOMAINS
                /\ Contains(MailHost(leads[k].Email), get_domain(leads[k].Website))
          /\ leads[k].Phone # <<>> =>
                (DigitCount(leads[k].Phone) >= 10 /\ DigitCount(leads[k].Phone) <= 15)
    /\ \A i \in 1..Len(processed) :
          processed[i].gate = "no_contact" =>
              (~InLeads(i) /\ processed[i].calls = {"scrape"})

\* a lead with both contacts, and a result the contact gate rejected
C4_Witness ==
    /\ \E k \in 1..Len(leads) : leads[k].Email # <<>> /\ leads[k].Phone # <<>>
    /\ \E i \in 1..Len(processed) : processed[i].gate = "no_contact"

(* C5: the hybrid score is min(10, 2*[email] + 2*[phone] + 2*[signal] +    *)
(* 1*[linkedin] + min(aiScore, 3)), an integer of 0..10, for every         *)
(* combination of the four signals and every aiScore; aiScore is 5 when    *)
(* the analysis has no "Lead Score: <digits>" match.                       *)
C5_HybridScore ==
    probe.fn = "lead_score" =>
        LET pts(b, n) == IF b THEN n ELSE 0
            sum == pts(probe.has_email, 2) + pts(probe.has_phone, 2)
                   + pts(probe.has_signal, 2) + pts(probe.has_linkedin, 1)
                   + (IF probe.ai_score <= 3 THEN probe.ai_score ELSE 3)
        IN  /\ probe.out = (IF sum >= 10 THEN 10 ELSE sum)
            /\ probe.out \in 0..10
            /\ ~probe.analysis.has_score => probe.ai_score = 5

\* all four signals and an out-of-range aiScore of 100
C5_Witness ==
    /\ probe.fn = "lead_score"
    /\ probe.has_email /\ probe.has_phone /\ probe.has_signal /\ probe.has_linkedin
    /\ probe.ai_score = 100
    /\ probe.out = 10

(* C6: the result list never holds more than max_leads leads, and once it  *)
(* holds max_leads no further result is gated, scraped, scored or appended.*)
C6_StopsAtMaxLeads ==
    /\ [](Len(leads) <= max_leads)
    /\ [][Len(leads) >= max_leads =>
            UNCHANGED <<leads, seen_domains, processed, idx>>]_vars

\* the run ended with max_leads leads and a result left unconsumed
C6_Witness ==
    /\ status = "done"
    /\ Len(leads) = max_leads
    /\ idx < Len(results)

C8_ExclusionIgnoresCase ==
    \A i \in 1..Len(processed) :
        ExcludedIgnoringCase(DomainAt(i)) => (~Scraped(i) /\ ~InLeads(i))

\* First element of rs that satisfies ok, projected by f; <<>> when none does
FirstMatch(rs, ok(_), f(_)) ==
    IF \E i \in 1..Len(rs) : ok(rs[i])
    THEN f(rs[CHOOSE i \in 1..Len(rs) : ok(rs[i]) /\ \A j \in 1..(i - 1) : ~ok(rs[j])])
    ELSE <<>>

(* C9: get_linkedin_info returns the link of the first result whose link   *)
(* contains "linkedin.com/company" and the title of the first result whose *)
(* title names a founder, ceo, co-founder or owner; "" when none matches.  *)
C9_FirstMatchWins ==
    probe.fn = "get_linkedin_info" =>
        /\ probe.out.linkedin =
              FirstMatch(probe.organic,
                         LAMBDA r : Contains(r.link, S_linkedin_company),
                         LAMBDA r : r.link)
        /\ probe.out.founder =
              FirstMatch(probe.organic,
                         LAMBDA r : \E k \in FounderWords : Contains(Lower(r.title), k),
                         LAMBDA r : r.title)

\* Each domain is scraped at most once, and a result whose domain was scraped
\* before is skipped without any call
C10_ScrapedOnce ==
    \A i \in 1..Len(processed) : \A j \in 1..Len(processed) :
        (i < j /\ DomainAt(i) = DomainAt(j) /\ Scraped(i)) => processed[j].calls = {}

\* Every recorded domain is non-empty and was recorded for a URL without a
\* blocklisted substring
C10_SeenAdmitted ==
    \A d \in seen_domains :
        /\ d # <<>>
        /\ \E i \in 1..Len(processed) :
              DomainAt(i) = d /\ Scraped(i) /\ ~UrlBlocked(results[i])

(* C10: a domain is recorded before its website is scraped, so each domain *)
(* is scraped at most once and later results of a rejected domain are      *)
(* skipped without a call; the recorded set never contains an empty,       *)
(* blocklisted-URL or excluded domain.                                     *)
C10_SeenDomains ==
    /\ C10_ScrapedOnce
    /\ C10_SeenAdmitted
    /\ \A d \in seen_domains : ~ExcludedIgnoringCase(d)

====
